---- MODULE Spec2Model ----
(***************************************************************************)
(* A model of two fragments of the spreadsheet application:                *)
(*   - app/server/lib/DocSession.ts: the OptDocSession structure, its      *)
(*     constructors, and the resolution of a user id and an access role    *)
(*     from it (specification SpecSession);                                *)
(*   - the client-side print utility: renderAllRows (specification         *)
(*     SpecRows) and printViewSection with its beforeprint / afterprint    *)
(*     listeners (specification SpecPrint).                                *)
(***************************************************************************)
EXTENDS Integers, Sequences, FiniteSets, TLC

VARIABLES
  \* ---- DocSession.ts
  docSession,   \* the OptDocSession object under consideration
  origin,       \* which constructor built docSession ("literal" for an object literal)
  result,       \* outcome of the last getDocSessionUserId / getDocSessionAccess call
  \* ---- renderAllRows
  rowIds,       \* the rowIds argument
  rpc,          \* position inside renderAllRows
  idx,          \* forEach index
  rowModel,     \* the floating row model created by renderAllRows
  elems,        \* every element renderRow has returned, in order
  html,         \* the local html: string[]
  resultDiv,    \* the returned div
  \* ---- printViewSection
  dom,          \* the page: print classes of each element, the .print-all-rows element
  view,         \* viewSection.viewInstance: its kind, its viewPane, its print state
  calls,        \* one record per printViewSection call
  debugPrinting,\* window.debugPrinting
  lastEvent     \* the last print event dispatched on window, and what it ran

sessionVars == <<docSession, origin, result>>
rowVars     == <<rowIds, rpc, idx, rowModel, elems, html, resultDiv>>
printVars   == <<dom, view, calls, debugPrinting, lastEvent>>
vars        == <<sessionVars, rowVars, printVars>>

(***************************************************************************)
(*                          DocSession.ts                                  *)
(***************************************************************************)

\* number|null user ids; "null" stands for null.
UserIds == {"null", "u1", "u2"}

\* Role|null as held by a cached auth; "null" stands for a missing access,
\* "undefined" for an access property that is not there at all.
Roles == {"owners", "editors", "viewers"}
MaybeRoles == Roles \cup {"null", "undefined"}

\* BrowserSettings|undefined
BrowserSettingsValues == {"undefined", "bsA", "bsB"}

\* mode?: 'nascent'|'plugin'|'system'
Modes == {"nascent", "plugin", "system"}
MaybeModes == Modes \cup {"undefined"}

\* Client|null. An absent client is the record with present = FALSE.
NoClient == [present |-> FALSE, cachedUserId |-> "null", browserSettings |-> "undefined"]
Clients == {NoClient} \cup
           [present : {TRUE}, cachedUserId : UserIds, browserSettings : {"bsA", "bsB"}]

\* RequestWithLogin|undefined, with its optional docAuth.
NoReq == [present |-> FALSE, userId |-> "null", hasDocAuth |-> FALSE, access |-> "undefined"]
Reqs == {NoReq} \cup
        [present : {TRUE}, userId : UserIds, hasDocAuth : {FALSE}, access : {"undefined"}] \cup
        [present : {TRUE}, userId : UserIds, hasDocAuth : {TRUE}, access : MaybeRoles]

\* Authorizer|undefined: what getUserId() and getCachedAuth().access yield.
NoAuthorizer == [present |-> FALSE, userId |-> "null", access |-> "undefined"]
Authorizers == {NoAuthorizer} \cup
               [present : {TRUE}, userId : UserIds, access : MaybeRoles]

\* interface OptDocSession
OptDocSession == [client : Clients, browserSettings : BrowserSettingsValues,
                  req : Reqs, mode : MaybeModes, authorizer : Authorizers]

\* Outcome of a call: a returned value or a thrown Error with its message.
Return(v) == [kind |-> "return", value |-> v]
Throw(msg) == [kind |-> "throw", value |-> msg]

\* JavaScript truthiness of a Role|null|undefined value.
Truthy(access) == access \notin {"null", "undefined"}

makeOptDocSession(client, browserSettings) ==
  LET bs == IF client.present /\ browserSettings = "undefined"
            THEN client.browserSettings ELSE browserSettings
  IN [client |-> client, browserSettings |-> bs,
      req |-> NoReq, mode |-> "undefined", authorizer |-> NoAuthorizer]

makeExceptionalDocSession(mode, optClient, optReq, optBrowserSettings) ==
  LET s == makeOptDocSession(optClient, optBrowserSettings)
  IN [s EXCEPT !.mode = mode, !.req = optReq]

docSessionFromRequest(req) ==
  [client |-> NoClient, browserSettings |-> "undefined",
   req |-> req, mode |-> "undefined", authorizer |-> NoAuthorizer]

\* class DocSession: client and authorizer are always there; browserSettings
\* is the client's.
DocSessionClass(client, authorizer) ==
  [client |-> client, browserSettings |-> client.browserSettings,
   req |-> NoReq, mode |-> "undefined", authorizer |-> authorizer]

\* Authorizer.getUserId(), getUserId(req), Client.getCachedUserId()
AuthorizerGetUserId(authorizer) == authorizer.userId
ReqGetUserId(req) == req.userId
ClientGetCachedUserId(client) == client.cachedUserId
\* Authorizer.getCachedAuth().access and req.docAuth?.access
AuthorizerCachedAccess(authorizer) == authorizer.access
ReqDocAuthAccess(req) == IF req.hasDocAuth THEN req.access ELSE "undefined"

getDocSessionUserId_ReqFirst(s) ==
  IF s.req.present THEN Return(ReqGetUserId(s.req))
  ELSE IF s.authorizer.present THEN Return(AuthorizerGetUserId(s.authorizer))
  ELSE IF s.client.present THEN Return(ClientGetCachedUserId(s.client))
  ELSE Return("null")

getDocSessionUserId(s) ==
  IF s.authorizer.present THEN Return(AuthorizerGetUserId(s.authorizer))
  ELSE IF s.req.present THEN Return(ReqGetUserId(s.req))
  ELSE IF s.client.present THEN Return(ClientGetCachedUserId(s.client))
  ELSE Return("null")

ErrAuthorizer == "getDocSessionAccess expected authorizer.getCachedAuth"
ErrReq == "getDocSessionAccess expected req.docAuth.access"
ErrNone == "getDocSessionAccess could not find access information in DocSession"

\* The role resolution for a session without a special mode.
ResolveAccess(s) ==
  IF s.authorizer.present THEN
    LET access == AuthorizerCachedAccess(s.authorizer)
    IN IF ~Truthy(access) THEN Throw(ErrAuthorizer) ELSE Return(access)
  ELSE IF s.req.present THEN
    LET access == ReqDocAuthAccess(s.req)
    IN IF ~Truthy(access) THEN Throw(ErrReq) ELSE Return(access)
  ELSE Throw(ErrNone)

getDocSessionAccess_ModeLast(s) ==
  IF s.authorizer.present \/ s.req.present THEN ResolveAccess(s)
  ELSE IF s.mode = "nascent" \/ s.mode = "system" THEN Return("owners")
  ELSE IF s.mode = "plugin" THEN Return("editors")
  ELSE Throw(ErrNone)

getDocSessionAccess_ReqFirst(s) ==
  IF s.mode = "nascent" \/ s.mode = "system" THEN Return("owners")
  ELSE IF s.mode = "plugin" THEN Return("editors")
  ELSE IF s.req.present /\ Truthy(ReqDocAuthAccess(s.req))
       THEN Return(ReqDocAuthAccess(s.req))
  ELSE ResolveAccess(s)

getDocSessionAccess_Fallback(s) ==
  IF s.mode = "nascent" \/ s.mode = "system" THEN Return("owners")
  ELSE IF s.mode = "plugin" THEN Return("editors")
  ELSE IF s.authorizer.present /\ Truthy(AuthorizerCachedAccess(s.authorizer))
       THEN Return(AuthorizerCachedAccess(s.authorizer))
  ELSE IF s.req.present THEN
    LET access == ReqDocAuthAccess(s.req)
    IN IF ~Truthy(access) THEN Throw(ErrReq) ELSE Return(access)
  ELSE Throw(ErrNone)

getDocSessionAccess(s) ==
  IF s.mode = "nascent" \/ s.mode = "system" THEN Return("owners")
  ELSE IF s.mode = "plugin" THEN Return("editors")
  ELSE ResolveAccess(s)

\* ---- SpecSession: the sessions the program can hold, and the two lookups

\* Record the outcome of calling fn on the current session; `before` keeps the
\* session as it was when the call started.
Called(fn, r) == [kind |-> r.kind, value |-> r.value, fn |-> fn, before |-> docSession]

\* A session is an object literal of the interface, or comes from one of the
\* constructors applied to any arguments.
SessionInit ==
  /\ \/ /\ origin = "literal"
        /\ docSession \in OptDocSession
     \/ /\ origin = "makeOptDocSession"
        /\ \E c \in Clients, bs \in BrowserSettingsValues :
             docSession = makeOptDocSession(c, bs)
     \/ /\ origin = "makeExceptionalDocSession"
        /\ \E m \in Modes, c \in Clients, r \in Reqs, bs \in BrowserSettingsValues :
             docSession = makeExceptionalDocSession(m, c, r, bs)
     \/ /\ origin = "docSessionFromRequest"
        /\ \E r \in Reqs \ {NoReq} : docSession = docSessionFromRequest(r)
     \/ /\ origin = "DocSession"
        /\ \E c \in Clients \ {NoClient}, a \in Authorizers \ {NoAuthorizer} :
             docSession = DocSessionClass(c, a)
  /\ result = [kind |-> "none", value |-> "", fn |-> "", before |-> docSession]

GetDocSessionUserId ==
  /\ result' = Called("getDocSessionUserId", getDocSessionUserId(docSession))
  /\ UNCHANGED <<docSession, origin>>
  /\ UNCHANGED <<rowVars, printVars>>

GetDocSessionAccess ==
  /\ result' = Called("getDocSessionAccess", getDocSessionAccess(docSession))
  /\ UNCHANGED <<docSession, origin>>
  /\ UNCHANGED <<rowVars, printVars>>

SessionNext ==
  \/ GetDocSessionUserId
  \/ GetDocSessionAccess

(***************************************************************************)
(*                     renderAllRows (print utility)                       *)
(***************************************************************************)

\* Longest rowIds array considered.
MaxRows == 3

\* type RowId = number|'new'
RowIdValues == {"r1", "r2", "new"}

RowIdArrays == UNION {[1..n -> RowIdValues] : n \in 0..MaxRows}

\* Decimal rendering of a small array index.
IndexStr(i) == <<"0", "1", "2", "3", "4", "5", "6", "7", "8", "9">>[i + 1]

\* The floating row model before createFloatingRowModel(null) has run.
NoRowModel == [created |-> FALSE, rowId |-> "null", index |-> -1, disposed |-> 0]

\* The element renderRow builds for a row model: it shows the row the model
\* is assigned to and the model's _index, and is live until disposed.
renderRow(r) == [rowId |-> r.rowId, index |-> r.index, disposed |-> 0]

\* elem.outerHTML: the markup of the element, without its subscriptions.
outerHTML(elem) ==
  "<div class=record data-row=" \o elem.rowId \o " data-index=" \o IndexStr(elem.index) \o "></div>"

\* Array.prototype.join
RECURSIVE join(_, _)
join(strs, sep) ==
  IF Len(strs) = 0 THEN ""
  ELSE IF Len(strs) = 1 THEN strs[1]
  ELSE strs[1] \o sep \o join(Tail(strs), sep)

NoDiv == [tag |-> "", cls |-> "", innerHTML |-> ""]

RowsInit ==
  /\ rowIds \in RowIdArrays
  /\ rpc = "start"
  /\ idx = 0
  /\ rowModel = NoRowModel
  /\ elems = <<>>
  /\ html = <<>>
  /\ resultDiv = NoDiv

\* const rowModel = tableModel.createFloatingRowModel(null); const html = [];
CreateRowModel ==
  /\ rpc = "start"
  /\ rowModel' = [created |-> TRUE, rowId |-> "null", index |-> -1, disposed |-> 0]
  /\ html' = <<>>
  /\ rpc' = "loop"
  /\ UNCHANGED <<rowIds, idx, elems, resultDiv>>
  /\ UNCHANGED <<sessionVars, printVars>>

\* forEach callback on an entry equal to 'new': nothing happens.
SkipNew ==
  /\ rpc = "loop"
  /\ idx < Len(rowIds)
  /\ rowIds[idx + 1] = "new"
  /\ idx' = idx + 1
  /\ UNCHANGED <<rowIds, rpc, rowModel, elems, html, resultDiv>>
  /\ UNCHANGED <<sessionVars, printVars>>

RenderRow_CountsRendered ==
  /\ rpc = "loop"
  /\ idx < Len(rowIds)
  /\ rowIds[idx + 1] # "new"
  /\ LET m == [rowModel EXCEPT !.index = Len(elems), !.rowId = rowIds[idx + 1]]
     IN /\ rowModel' = m
        /\ elems' = Append(elems, renderRow(m))
  /\ rpc' = "rendered"
  /\ UNCHANGED <<rowIds, idx, html, resultDiv>>
  /\ UNCHANGED <<sessionVars, printVars>>

\* rowModel._index(index); rowModel.assign(rowId); const elem = renderRow(rowModel);
RenderRow ==
  /\ rpc = "loop"
  /\ idx < Len(rowIds)
  /\ rowIds[idx + 1] # "new"
  /\ LET m == [rowModel EXCEPT !.index = idx, !.rowId = rowIds[idx + 1]]
     IN /\ rowModel' = m
        /\ elems' = Append(elems, renderRow(m))
  /\ rpc' = "rendered"
  /\ UNCHANGED <<rowIds, idx, html, resultDiv>>
  /\ UNCHANGED <<sessionVars, printVars>>

\* renderRow is the caller's function and may throw; the exception leaves
\* renderAllRows at once.
RenderRowThrows ==
  /\ rpc = "loop"
  /\ idx < Len(rowIds)
  /\ rowIds[idx + 1] # "new"
  /\ rowModel' = [rowModel EXCEPT !.index = idx, !.rowId = rowIds[idx + 1]]
  /\ rpc' = "threw"
  /\ UNCHANGED <<rowIds, idx, elems, html, resultDiv>>
  /\ UNCHANGED <<sessionVars, printVars>>

\* html.push(elem.outerHTML);
PushHtml ==
  /\ rpc = "rendered"
  /\ html' = Append(html, outerHTML(elems[Len(elems)]))
  /\ rpc' = "pushed"
  /\ UNCHANGED <<rowIds, idx, rowModel, elems, resultDiv>>
  /\ UNCHANGED <<sessionVars, printVars>>

DisposeElem_Forgotten ==
  /\ rpc = "pushed"
  /\ idx' = idx + 1
  /\ rpc' = "loop"
  /\ UNCHANGED <<rowIds, rowModel, elems, html, resultDiv>>
  /\ UNCHANGED <<sessionVars, printVars>>

\* dom.domDispose(elem); and on to the next entry.
DisposeElem ==
  /\ rpc = "pushed"
  /\ elems' = [elems EXCEPT ![Len(elems)].disposed = @ + 1]
  /\ idx' = idx + 1
  /\ rpc' = "loop"
  /\ UNCHANGED <<rowIds, rowModel, html, resultDiv>>
  /\ UNCHANGED <<sessionVars, printVars>>

\* rowModel.dispose(); result = dom('div.print-all-rows');
\* result.innerHTML = html.join("\n"); return result;
FinishRows ==
  /\ rpc = "loop"
  /\ idx = Len(rowIds)
  /\ rowModel' = [rowModel EXCEPT !.disposed = @ + 1]
  /\ resultDiv' = [tag |-> "div", cls |-> "print-all-rows", innerHTML |-> join(html, "\n")]
  /\ rpc' = "done"
  /\ UNCHANGED <<rowIds, idx, elems, html>>
  /\ UNCHANGED <<sessionVars, printVars>>

RowsNext ==
  \/ CreateRowModel
  \/ SkipNew
  \/ RenderRow
  \/ RenderRowThrows
  \/ PushHtml
  \/ DisposeElem
  \/ FinishRows

(***************************************************************************)
(*                    printViewSection (print utility)                     *)
(***************************************************************************)

\* Number of printViewSection calls considered.
MaxCalls == 2

CallIds == 1..MaxCalls

\* The page. "none" stands for null (no element).
Nodes == {"html", "body", "layoutRoot", "boxA", "boxB",
          "sectionA", "paneA", "scrollA", "rowsA", "sectionB", "paneB", "orphan"}

\* parentElement of every element but the .print-all-rows element, which the
\* view attaches and detaches.
StaticParent(n) ==
  CASE n = "html"       -> "none"
    [] n = "body"       -> "html"
    [] n = "layoutRoot" -> "body"
    [] n = "boxA"       -> "layoutRoot"
    [] n = "boxB"       -> "layoutRoot"
    [] n = "sectionA"   -> "boxA"
    [] n = "paneA"      -> "sectionA"
    [] n = "scrollA"    -> "paneA"
    [] n = "sectionB"   -> "boxB"
    [] n = "paneB"      -> "sectionB"
    [] n = "orphan"     -> "none"
    [] OTHER            -> "none"

\* The classes that are not touched by printing.
HasStaticClass(n, cls) ==
  \/ cls = "viewsection_content" /\ n \in {"sectionA", "sectionB"}
  \/ cls = "print-all-rows" /\ n = "rowsA"

\* The dom of every box layout.forEachBox visits.
Boxes == {"layoutRoot", "boxA", "boxB"}

PrintClasses == {"print-hide", "print-widget", "print-parent"}

\* elem.parentElement
parentElement(d, n) ==
  IF n = "rowsA" THEN (IF d.rowsAttached THEN d.rowsParent ELSE "none")
  ELSE StaticParent(n)

\* The elements from n up to its root, n included.
RECURSIVE InclusiveAncestors(_, _)
InclusiveAncestors(d, n) ==
  IF n = "none" THEN {} ELSE {n} \cup InclusiveAncestors(d, parentElement(d, n))

\* Node.contains: a node contains itself and its descendants.
contains(d, a, b) == b # "none" /\ a \in InclusiveAncestors(d, b)

\* Element.closest: the nearest inclusive ancestor with the class, or null.
RECURSIVE closest(_, _, _)
closest(d, n, cls) ==
  IF n = "none" THEN "none"
  ELSE IF HasStaticClass(n, cls) THEN n
  ELSE closest(d, parentElement(d, n), cls)

\* Element.querySelector: a descendant with the class, or null. The page has
\* at most one .print-all-rows element, so "the first in document order" is it.
querySelector(d, root, cls) ==
  LET found == {n \in Nodes : HasStaticClass(n, cls) /\ n # root /\ contains(d, root, n)}
  IN IF found = {} THEN "none" ELSE CHOOSE n \in found : TRUE

classListToggle_Flip(classes, cls, onOff) ==
  IF cls \in classes THEN classes \ {cls} ELSE classes \cup {cls}

\* classList.toggle(cls, force)
classListToggle(classes, cls, onOff) ==
  IF onOff THEN classes \cup {cls} ELSE classes \ {cls}

\* viewInstance.prepareToPrint(onOff): every view notes whether it is printing;
\* a scrolly-based view renders all its rows into a .print-all-rows element
\* inside its pane while printing and removes that element afterwards.
ViewPrepareToPrint(st, onOff) ==
  [dom  |-> IF st.view.kind = "scrolly"
            THEN [st.dom EXCEPT !.rowsAttached = onOff] ELSE st.dom,
   view |-> [st.view EXCEPT !.printing = IF onOff THEN "on" ELSE "off"]]

\* viewInstance?.viewPane?.closest('.viewsection_content')
FindSectionElem(d, v) ==
  IF v.kind = "none" THEN "none" ELSE closest(d, v.viewPane, "viewsection_content")

\* layout.forEachBox(box => { if (!box.dom.contains(sectionElem)) toggle 'print-hide' })
HideOtherBoxes(d, sectionElem, onOff) ==
  [d EXCEPT !.classes =
     [n \in Nodes |->
        IF n \in Boxes /\ ~contains(d, n, sectionElem)
        THEN classListToggle(d.classes[n], "print-hide", onOff)
        ELSE d.classes[n]]]

\* sectionElem.classList.toggle('print-widget', onOff)
MarkWidget(d, sectionElem, onOff) ==
  [d EXCEPT !.classes[sectionElem] = classListToggle(@, "print-widget", onOff)]

\* sectionElem.querySelector('.print-all-rows') || sectionElem
KeyElem(d, sectionElem) ==
  LET q == querySelector(d, sectionElem, "print-all-rows")
  IN IF q # "none" THEN q ELSE sectionElem

\* let elem = keyElem.parentElement; while (elem) { toggle 'print-parent'; elem = elem.parentElement }
MarkParents(d, keyElem, onOff) ==
  LET parents == InclusiveAncestors(d, parentElement(d, keyElem))
  IN [d EXCEPT !.classes =
        [n \in Nodes |->
           IF n \in parents THEN classListToggle(d.classes[n], "print-parent", onOff)
           ELSE d.classes[n]]]

\* function prepareToPrint(onOff), closed over sectionElem and viewInstance.
\* st holds the page and the view; the result is what they are afterwards.
prepareToPrint(st, sectionElem, onOff) ==
  LET d1 == HideOtherBoxes(st.dom, sectionElem, onOff)
      d2 == MarkWidget(d1, sectionElem, onOff)
      s3 == ViewPrepareToPrint([dom |-> d2, view |-> st.view], onOff)
      keyElem == KeyElem(s3.dom, sectionElem)
  IN [dom |-> MarkParents(s3.dom, keyElem, onOff), view |-> s3.view]

\* A call that has not been made yet.
NoCall == [pc |-> "idle", sectionElem |-> "none", sub1 |-> FALSE, sub2 |-> FALSE,
           registered |-> FALSE, printed |-> 0, triggered |-> "no",
           sawBefore |-> FALSE, error |-> ""]

PrintInit ==
  /\ \E rp \in {"paneA", "scrollA"} :
       dom = [classes |-> [n \in Nodes |-> {}], rowsAttached |-> FALSE, rowsParent |-> rp]
  /\ \/ view = [kind |-> "none", viewPane |-> "none", printing |-> "never"]
     \/ \E k \in {"plain", "scrolly", "custom"}, vp \in {"none", "paneA", "orphan"} :
          view = [kind |-> k, viewPane |-> vp, printing |-> "never"]
  /\ calls = [c \in CallIds |-> NoCall]
  /\ debugPrinting \in BOOLEAN
  /\ lastEvent = [type |-> "none", ran |-> {}, repeated |-> {}, tick |-> 0,
                  before |-> [dom |-> dom, view |-> view]]

\* const sub1 = dom.onElem(window, 'beforeprint', ...);
\* const sub2 = dom.onElem(window, 'afterprint', ...); window.print();
RegisterAndPrint(call) ==
  [call EXCEPT !.sub1 = TRUE, !.sub2 = TRUE, !.registered = TRUE,
               !.printed = @ + 1, !.pc = "returned"]

\* printViewSection(layout, viewSection), up to its first await or its end.
\* Calls are numbered in the order they are made.
PrintViewSection(c) ==
  /\ calls[c].pc = "idle"
  /\ c > 1 => calls[c - 1].pc # "idle"
  /\ LET sectionElem == FindSectionElem(dom, view)
     IN calls' = [calls EXCEPT ![c] =
          IF sectionElem = "none"
          THEN [@ EXCEPT !.pc = "threw", !.error = "No page widget to print"]
          ELSE IF view.kind = "custom"
          THEN [@ EXCEPT !.pc = "await", !.sectionElem = sectionElem]
          ELSE RegisterAndPrint([@ EXCEPT !.sectionElem = sectionElem])]
  /\ UNCHANGED <<dom, view, debugPrinting, lastEvent>>
  /\ UNCHANGED <<sessionVars, rowVars>>

TriggerPrintResolves_FallsThrough(c) ==
  /\ calls[c].pc = "await"
  /\ calls' = [calls EXCEPT ![c] = RegisterAndPrint([@ EXCEPT !.triggered = "resolved"])]
  /\ UNCHANGED <<dom, view, debugPrinting, lastEvent>>
  /\ UNCHANGED <<sessionVars, rowVars>>

\* await viewInstance.triggerPrint() resolves: return.
TriggerPrintResolves(c) ==
  /\ calls[c].pc = "await"
  /\ calls' = [calls EXCEPT ![c] = [@ EXCEPT !.triggered = "resolved", !.pc = "returned"]]
  /\ UNCHANGED <<dom, view, debugPrinting, lastEvent>>
  /\ UNCHANGED <<sessionVars, rowVars>>

\* await viewInstance.triggerPrint() rejects: the error is logged and the
\* function carries on to print from outside.
TriggerPrintRejects(c) ==
  /\ calls[c].pc = "await"
  /\ calls' = [calls EXCEPT ![c] = RegisterAndPrint([@ EXCEPT !.triggered = "rejected"])]
  /\ UNCHANGED <<dom, view, debugPrinting, lastEvent>>
  /\ UNCHANGED <<sessionVars, rowVars>>

\* The listeners of an event run one after the other. The handlers of
\* different calls do the same forced toggles on the same section, so the
\* order among them makes no difference; they run here in call order.
RECURSIVE RunPrepare(_, _, _)
RunPrepare(st, cs, onOff) ==
  IF cs = {} THEN st
  ELSE LET c == CHOOSE x \in cs : \A y \in cs : x <= y
       IN RunPrepare(prepareToPrint(st, calls[c].sectionElem, onOff), cs \ {c}, onOff)

Dispatched(type, listeners) ==
  [type |-> type, ran |-> listeners,
   repeated |-> {c \in listeners : calls[c].sawBefore},
   tick |-> 1 - lastEvent.tick,
   before |-> [dom |-> dom, view |-> view]]

\* window fires 'beforeprint': () => prepareToPrint(true) for every sub1.
BeforePrint ==
  LET listeners == {c \in CallIds : calls[c].sub1}
      st == RunPrepare([dom |-> dom, view |-> view], listeners, TRUE)
  IN /\ dom' = st.dom
     /\ view' = st.view
     /\ calls' = [c \in CallIds |->
                    IF c \in listeners THEN [calls[c] EXCEPT !.sawBefore = TRUE]
                    ELSE calls[c]]
     /\ lastEvent' = Dispatched("beforeprint", listeners)
     /\ UNCHANGED debugPrinting
     /\ UNCHANGED <<sessionVars, rowVars>>

AfterPrintDispose_KeepsSub1(call) ==
  [call EXCEPT !.sub2 = FALSE]

\* sub1.dispose(); sub2.dispose();
AfterPrintDispose(call) ==
  [call EXCEPT !.sub1 = FALSE, !.sub2 = FALSE]

\* window fires 'afterprint': every sub2 handler disposes its two listeners
\* and, unless window.debugPrinting is set, runs prepareToPrint(false).
AfterPrint ==
  LET listeners == {c \in CallIds : calls[c].sub2}
      st == IF debugPrinting THEN [dom |-> dom, view |-> view]
            ELSE RunPrepare([dom |-> dom, view |-> view], listeners, FALSE)
  IN /\ dom' = st.dom
     /\ view' = st.view
     /\ calls' = [c \in CallIds |->
                    IF c \in listeners THEN AfterPrintDispose(calls[c]) ELSE calls[c]]
     /\ lastEvent' = Dispatched("afterprint", listeners)
     /\ UNCHANGED debugPrinting
     /\ UNCHANGED <<sessionVars, rowVars>>

PrintNext ==
  \/ \E c \in CallIds : PrintViewSection(c)
  \/ \E c \in CallIds : TriggerPrintResolves(c)
  \/ \E c \in CallIds : TriggerPrintRejects(c)
  \/ BeforePrint
  \/ AfterPrint

(***************************************************************************)
(*                          The specifications                             *)
(***************************************************************************)

\* The parts of the state a specification does not exercise stay as they are.
SessionIdle ==
  /\ docSession = makeOptDocSession(NoClient, "undefined")
  /\ origin = "makeOptDocSession"
  /\ result = [kind |-> "none", value |-> "", fn |-> "", before |-> docSession]

RowsIdle ==
  /\ rowIds = <<>>
  /\ rpc = "start"
  /\ idx = 0
  /\ rowModel = NoRowModel
  /\ elems = <<>>
  /\ html = <<>>
  /\ resultDiv = NoDiv

PrintIdle ==
  /\ dom = [classes |-> [n \in Nodes |-> {}], rowsAttached |-> FALSE, rowsParent |-> "scrollA"]
  /\ view = [kind |-> "none", viewPane |-> "none", printing |-> "never"]
  /\ calls = [c \in CallIds |-> NoCall]
  /\ debugPrinting = FALSE
  /\ lastEvent = [type |-> "none", ran |-> {}, repeated |-> {}, tick |-> 0,
                  before |-> [dom |-> dom, view |-> view]]

SessionSpecInit == SessionInit /\ RowsIdle /\ PrintIdle
RowsSpecInit    == SessionIdle /\ RowsInit /\ PrintIdle
PrintSpecInit   == SessionIdle /\ RowsIdle /\ PrintInit

SpecSession == SessionSpecInit /\ [][SessionNext]_vars
SpecRows    == RowsSpecInit /\ [][RowsNext]_vars
SpecPrint   == PrintSpecInit /\ [][PrintNext]_vars

(***************************************************************************)
(*                      Claims about DocSession.ts                         *)
(***************************************************************************)

AccessCalled == result.fn = "getDocSessionAccess"
UserIdCalled == result.fn = "getDocSessionUserId"

\* C1: for a session whose mode is set, getDocSessionAccess returns 'owners'
\* for 'nascent' and 'system' and 'editors' for 'plugin', whatever the
\* authorizer, req and client fields hold, and it does not throw.
C1_ModeOverridesAccess ==
  (AccessCalled /\ result.before.mode \in Modes) =>
     /\ result.kind = "return"
     /\ result.before.mode \in {"nascent", "system"} => result.value = "owners"
     /\ result.before.mode = "plugin" => result.value = "editors"

\* A plugin session built by makeExceptionalDocSession around a request that
\* carries another role has been asked for its access.
C1_Witness ==
  /\ AccessCalled
  /\ origin = "makeExceptionalDocSession"
  /\ docSession.mode = "plugin"
  /\ docSession.req.present /\ docSession.req.hasDocAuth
  /\ docSession.req.access = "owners"
  /\ docSession.client.present
  /\ result.kind = "return" /\ result.value = "editors"

\* C2: getDocSessionUserId resolves the user id by strict precedence
\* authorizer > req > client, returns null when none of them is present,
\* never throws, and does not depend on the session's mode.
C2_UserIdPrecedence ==
  UserIdCalled =>
    LET s == result.before IN
     /\ result.kind = "return"
     /\ s.authorizer.present => result.value = s.authorizer.userId
     /\ (~s.authorizer.present /\ s.req.present) => result.value = s.req.userId
     /\ (~s.authorizer.present /\ ~s.req.present /\ s.client.present)
           => result.value = s.client.cachedUserId
     /\ (~s.authorizer.present /\ ~s.req.present /\ ~s.client.present)
           => result.value = "null"
     /\ \A m \in MaybeModes :
           getDocSessionUserId([s EXCEPT !.mode = m]).value = result.value

\* The authorizer knows no user while the request and the client each know a
\* different one; the answer is the authorizer's null.
C2_Witness ==
  /\ UserIdCalled
  /\ docSession.authorizer.present /\ docSession.authorizer.userId = "null"
  /\ docSession.req.present /\ docSession.req.userId = "u1"
  /\ docSession.client.present /\ docSession.client.cachedUserId = "u2"
  /\ result.kind = "return" /\ result.value = "null"

\* C3: without a mode, the role is the authorizer's cached access when an
\* authorizer with a cached access is present (even if the request carries a
\* different one), the request's docAuth access when there is no authorizer
\* and that access is present, and a returned role always comes from one of
\* these two sources.
C3_AccessPrecedence ==
  (AccessCalled /\ result.before.mode = "undefined") =>
    LET s == result.before IN
     /\ (s.authorizer.present /\ s.authorizer.access \in Roles)
           => (result.kind = "return" /\ result.value = s.authorizer.access)
     /\ (~s.authorizer.present /\ s.req.present /\ s.req.hasDocAuth /\ s.req.access \in Roles)
           => (result.kind = "return" /\ result.value = s.req.access)
     /\ result.kind = "return" =>
           \/ s.authorizer.present /\ result.value = s.authorizer.access
           \/ ~s.authorizer.present /\ s.req.present /\ s.req.hasDocAuth
                /\ result.value = s.req.access

\* The authorizer caches 'editors', the request says 'owners'; the answer is
\* 'editors'.
C3_Witness ==
  /\ AccessCalled
  /\ docSession.mode = "undefined"
  /\ docSession.authorizer.present /\ docSession.authorizer.access = "editors"
  /\ docSession.req.present /\ docSession.req.hasDocAuth /\ docSession.req.access = "owners"
  /\ result.kind = "return" /\ result.value = "editors"

\* The three cases in which role resolution has nothing to return.
C4_Case1(s) == s.authorizer.present /\ s.authorizer.access \notin Roles
C4_Case2(s) == /\ ~s.authorizer.present /\ s.req.present
               /\ (~s.req.hasDocAuth \/ s.req.access \notin Roles)
C4_Case3(s) == ~s.authorizer.present /\ ~s.req.present

\* C4: without a mode, getDocSessionAccess throws exactly when (1) the
\* authorizer is present but has no cached access (the request is then not
\* consulted), (2) there is no authorizer and the request has no docAuth
\* access, or (3) there is neither authorizer nor request, as for a session
\* made by makeOptDocSession(client); the session object is left as it was.
C4_ThrowsExactly ==
  (AccessCalled /\ result.before.mode = "undefined") =>
    LET s == result.before IN
     /\ result.kind = "throw" <=> (C4_Case1(s) \/ C4_Case2(s) \/ C4_Case3(s))
     /\ result.kind \in {"throw", "return"}
     /\ C4_Case1(s) => result.value = ErrAuthorizer
     /\ C4_Case2(s) => result.value = ErrReq
     /\ C4_Case3(s) => result.value = ErrNone
     /\ origin = "makeOptDocSession" => result.kind = "throw"
     /\ docSession = s

\* The authorizer has no cached access while the request carries 'owners':
\* the call throws all the same.
C4_Witness ==
  /\ AccessCalled
  /\ docSession.mode = "undefined"
  /\ docSession.authorizer.present /\ docSession.authorizer.access = "null"
  /\ docSession.req.present /\ docSession.req.hasDocAuth /\ docSession.req.access = "owners"
  /\ result.kind = "throw"

(***************************************************************************)
(*                      Claims about renderAllRows                         *)
(***************************************************************************)

\* The positions (from 1) of the entries of ids that are not 'new', ascending.
RECURSIVE NonNewPositions(_, _)
NonNewPositions(ids, i) ==
  IF i > Len(ids) THEN <<>>
  ELSE (IF ids[i] # "new" THEN <<i>> ELSE <<>>) \o NonNewPositions(ids, i + 1)

\* The lines of strs up to the k-th, each but the first preceded by a newline.
RECURSIVE Lines(_, _)
Lines(strs, k) ==
  IF k = 0 THEN "" ELSE IF k = 1 THEN strs[1] ELSE Lines(strs, k - 1) \o "\n" \o strs[k]

\* What the rows of ids look like when each non-'new' entry is rendered with
\* its own row id and its position in ids (counted from 0).
ExpectedRows(ids) ==
  LET pos == NonNewPositions(ids, 1)
  IN [k \in 1..Len(pos) |-> [rowId |-> ids[pos[k]], index |-> pos[k] - 1]]

ExpectedInnerHTML(ids) ==
  LET rows == ExpectedRows(ids)
      strs == [k \in 1..Len(rows) |->
                 outerHTML([rowId |-> rows[k].rowId, index |-> rows[k].index, disposed |-> 0])]
  IN Lines(strs, Len(strs))

\* C5: renderAllRows returns a div.print-all-rows whose content is the
\* outerHTML of renderRow's result for each entry of rowIds that is not 'new',
\* in order and joined by newlines; renderRow is called exactly once per such
\* entry, with the row model assigned to that row id and its _index set to the
\* entry's position in rowIds.
C5_AllRowsRendered ==
  rpc = "done" =>
     /\ resultDiv.tag = "div" /\ resultDiv.cls = "print-all-rows"
     /\ resultDiv.innerHTML = ExpectedInnerHTML(rowIds)
     /\ [k \in 1..Len(elems) |-> [rowId |-> elems[k].rowId, index |-> elems[k].index]]
          = ExpectedRows(rowIds)

\* A 'new' entry comes first and two rows follow it.
C5_Witness ==
  /\ rpc = "done"
  /\ rowIds = <<"new", "r2", "r1">>
  /\ Len(elems) = 2
  /\ elems[1].index = 1 /\ elems[2].index = 2

LiveElems == {k \in 1..Len(elems) : elems[k].disposed = 0}

\* C6: at most one rendered row element is live at any moment, each is
\* disposed before the next row is rendered, and when renderAllRows returns
\* every rendered element and the floating row model have been disposed
\* exactly once.
C6_OneLiveElement ==
  /\ Cardinality(LiveElems) <= 1
  /\ LiveElems \subseteq {Len(elems)}
  /\ rpc = "loop" => LiveElems = {}
  /\ \A k \in 1..Len(elems) : elems[k].disposed <= 1
  /\ rowModel.disposed <= 1
  /\ rpc = "done" =>
       /\ \A k \in 1..Len(elems) : elems[k].disposed = 1
       /\ rowModel.created /\ rowModel.disposed = 1
  /\ rpc \notin {"done"} => rowModel.disposed = 0

\* renderAllRows has returned after rendering at least two rows.
C6_Witness ==
  /\ rpc = "done"
  /\ Len(elems) >= 2
  /\ rowModel.disposed = 1

(***************************************************************************)
(*                     Claims about printViewSection                       *)
(***************************************************************************)

NoPrintClasses == \A n \in Nodes : dom.classes[n] = {}

\* C7: printViewSection registers its listeners and calls window.print() only
\* when the view's pane lies inside a .viewsection_content element and either
\* the view is no CustomView or its triggerPrint() rejected. Without such an
\* element it rejects with 'No page widget to print' and does nothing else;
\* when triggerPrint() resolves it returns without listeners, class changes
\* or printing; when triggerPrint() rejects the normal path runs.
C7_PrintOnlyWithWidget ==
  /\ \A c \in CallIds :
       /\ (calls[c].registered \/ calls[c].printed > 0 \/ c \in lastEvent.ran) =>
            /\ FindSectionElem(dom, view) # "none"
            /\ calls[c].sectionElem = FindSectionElem(dom, view)
            /\ view.kind # "custom" \/ calls[c].triggered = "rejected"
            /\ calls[c].registered /\ calls[c].printed = 1
       /\ (calls[c].pc # "idle" /\ FindSectionElem(dom, view) = "none") =>
            /\ calls[c].pc = "threw" /\ calls[c].error = "No page widget to print"
            /\ ~calls[c].registered /\ calls[c].printed = 0
       /\ calls[c].pc = "threw" => FindSectionElem(dom, view) = "none"
       /\ calls[c].triggered = "resolved" =>
            /\ calls[c].pc = "returned"
            /\ ~calls[c].registered /\ calls[c].printed = 0
            /\ ~calls[c].sub1 /\ ~calls[c].sub2
       /\ calls[c].triggered = "rejected" =>
            /\ calls[c].pc = "returned"
            /\ calls[c].registered /\ calls[c].printed = 1
       /\ (calls[c].sub1 \/ calls[c].sub2) => calls[c].registered
  /\ (\A c \in CallIds : ~calls[c].registered) => NoPrintClasses

\* One call on a CustomView returned without printing because triggerPrint()
\* resolved, another printed from outside because it rejected.
C7_Witness ==
  /\ view.kind = "custom"
  /\ \E c \in CallIds : calls[c].triggered = "resolved" /\ calls[c].printed = 0
  /\ \E c \in CallIds : calls[c].triggered = "rejected" /\ calls[c].printed = 1
                          /\ calls[c].sub1 /\ calls[c].sub2

\* The last event was a beforeprint that some call's listener handled, so the
\* page is between beforeprint and afterprint.
Printing == lastEvent.type = "beforeprint" /\ lastEvent.ran # {}

\* The section element the registered calls print.
PrintedSection == FindSectionElem(dom, view)

\* C8: after a handled beforeprint and until afterprint, every layout box that
\* does not contain the section element has 'print-hide' and no box that
\* contains it has, the section element has 'print-widget', the view has been
\* told prepareToPrint(true), and every ancestor of the key element up to the
\* document root has 'print-parent'; a repeated beforeprint leaves the page
\* as it was.
C8_PrintLayout ==
  Printing =>
     /\ PrintedSection # "none"
     /\ \A b \in Boxes :
          "print-hide" \in dom.classes[b] <=> ~contains(dom, b, PrintedSection)
     /\ "print-widget" \in dom.classes[PrintedSection]
     /\ view.printing = "on"
     /\ view.kind = "scrolly" => dom.rowsAttached
     /\ LET keyElem == KeyElem(dom, PrintedSection)
        IN \A n \in Nodes :
             (n # keyElem /\ contains(dom, n, keyElem)) => "print-parent" \in dom.classes[n]
     /\ lastEvent.repeated # {} =>
          (dom = lastEvent.before.dom /\ view = lastEvent.before.view)

\* A scrolly-based view has seen beforeprint twice; its .print-all-rows
\* element is in the page and is the key element.
C8_Witness ==
  /\ Printing
  /\ lastEvent.repeated # {}
  /\ view.kind = "scrolly"
  /\ KeyElem(dom, PrintedSection) = "rowsA"
  /\ "print-parent" \in dom.classes["scrollA"]
  /\ "print-hide" \in dom.classes["boxB"]

\* The last event was an afterprint handled by a listener whose beforeprint
\* listener had run before.
Printed == lastEvent.type = "afterprint" /\ lastEvent.repeated # {}

EventStep(type) == lastEvent'.tick # lastEvent.tick /\ lastEvent'.type = type

Disposed(call) == call.registered /\ ~call.sub1 /\ ~call.sub2

\* C10: the first afterprint disposes both listeners of a call, whether or
\* not window.debugPrinting is set (and if it is, the classes stay); later
\* events run nothing on behalf of that call and, when no listener is left,
\* change nothing; until an afterprint both listeners stay registered; an
\* afterprint only takes classes away.
C10_OneShotListeners ==
  [][ /\ \A c \in CallIds :
           /\ Disposed(calls[c]) =>
                /\ calls'[c] = calls[c]
                /\ lastEvent'.tick # lastEvent.tick => c \notin lastEvent'.ran
           /\ (calls[c].sub1 /\ calls[c].sub2 /\ ~EventStep("afterprint")) =>
                (calls'[c].sub1 /\ calls'[c].sub2)
           /\ calls'[c].sub1 <=> calls'[c].sub2
      /\ (\A c \in CallIds : ~calls[c].sub1 /\ ~calls[c].sub2) =>
           (dom' = dom /\ view' = view)
      /\ EventStep("afterprint") =>
           /\ \A c \in CallIds : ~calls'[c].sub1 /\ ~calls'[c].sub2
           /\ lastEvent'.ran = {c \in CallIds : calls[c].sub2}
           /\ \A n \in Nodes : dom'.classes[n] \subseteq dom.classes[n]
           /\ debugPrinting => (dom' = dom /\ view' = view)
    ]_vars

\* With window.debugPrinting set, a call's listeners are gone after its
\* afterprint, the print classes are still there, and a later beforeprint has
\* run nothing.
C10_Witness ==
  /\ debugPrinting
  /\ lastEvent.type = "beforeprint" /\ lastEvent.ran = {}
  /\ \E c \in CallIds : Disposed(calls[c]) /\ calls[c].sawBefore
  /\ "print-widget" \in dom.classes["sectionA"]

====
